---- MODULE Spec2Model ----
(***************************************************************************)
(* Stop-and-wait ARQ endpoints of src/mingled/simulation_core.py: the      *)
(* frame format (Packet.to_bits / Packet.from_bits), the endpoint state    *)
(* machine (Host.send / Host.receive / Host.check_timeouts) and the        *)
(* process-wide event log (SIM_EVENTS).                                    *)
(*                                                                         *)
(* A waveform is identified with the bit sequence it carries; what the     *)
(* channel and Modem.demodulate hand to Host.receive (line 268) is chosen  *)
(* from demodulated(signal): the bits intact, one bit flipped, a truncated *)
(* prefix, or nothing at all.                                              *)
(***************************************************************************)
EXTENDS Integers, Sequences, FiniteSets, TLC

VARIABLES next_seq, pending_acks, received_seqs, SIM_EVENTS,
          now, medium, call, ret, app_log, acks_processed, send_log, nsends,
          sent_reliably, codec, modem, delivered, driver

vars == <<next_seq, pending_acks, received_seqs, SIM_EVENTS,
          now, medium, call, ret, app_log, acks_processed, send_log, nsends,
          sent_reliably, codec, modem, delivered, driver>>

\* everything the endpoints and their driver hold
network == <<next_seq, pending_acks, received_seqs, SIM_EVENTS,
             now, medium, call, ret, app_log, acks_processed, send_log,
             nsends, sent_reliably, delivered>>

host_state == <<next_seq, pending_acks, received_seqs>>

(***************************************************************************)
(* Bounds of the model.                                                    *)
(***************************************************************************)
MaxSends == 2
MaxTime == 4
MaxEvents == 3
\* the clock of the specification that follows one entry over two timeouts
MaxRetryTime == 8
\* send_log stops counting the retransmissions of an entry here
MaxRetransmissions == 2
MaxBits == 3
MaxSamplesPerBit == 3
\* the channel delays a waveform by up to MaxDelay steps of DelayStep samples
MaxDelay == 2
DelayStep == 11
\* the calls of propagate within one another that are followed
MaxDepth == 3

(***************************************************************************)
(* Program constants and the small input sets.                             *)
(***************************************************************************)
timeout_interval == 3
\* Modem(): samples_per_bit=20
samples_per_bit == 20
\* seq travels as self.seq % 256
SeqModulus == 256
\* the last seq before the wire field starts over
WrapStart == SeqModulus - 1

Hosts == {1, 2}
\* the client of run_simulation sends to the server
Senders == {1}
Targets == {2}
\* "A" and "Hi" as character codes
Messages == {<<65>>, <<72, 105>>}
RetryMessages == {<<65>>}
\* the literal "ACK" of line 297
ACK_PAYLOAD == <<65, 67, 75>>

None == <<>>
Some(x) == <<x>>

(***************************************************************************)
(* Python helpers.                                                         *)
(***************************************************************************)
Min(a, b) == IF a < b THEN a ELSE b

\* s[a:b] with 0 <= a <= b
py_slice(s, a, b) == SubSeq(s, a + 1, Min(b, Len(s)))

\* bin(n)[2:]
RECURSIVE bin(_)
bin(n) == IF n < 2 THEN <<n>> ELSE Append(bin(n \div 2), n % 2)

\* str.zfill(w)
RECURSIVE zfill(_, _)
zfill(s, w) == IF Len(s) >= w THEN s ELSE zfill(<<0>> \o s, w)

\* [int(b) for b in bin(n)[2:].zfill(8)]
bin8(n) == zfill(bin(n), 8)

\* sum(bits), added up by halves
RECURSIVE sum_range(_, _, _)
sum_range(bits, lo, hi) ==
    IF lo > hi THEN 0
    ELSE IF lo = hi THEN bits[lo]
    ELSE LET mid == (lo + hi) \div 2
         IN  sum_range(bits, lo, mid) + sum_range(bits, mid + 1, hi)
sum(bits) == sum_range(bits, 1, Len(bits))

\* int("".join(map(str, b)), 2)
RECURSIVE int_upto(_, _)
int_upto(b, n) == IF n = 0 THEN 0 ELSE 2 * int_upto(b, n - 1) + b[n]
bits_to_int(b) == int_upto(b, Len(b))

(***************************************************************************)
(* Utils                                                                   *)
(***************************************************************************)
\* for char in s: result.extend(bin(ord(char))[2:].zfill(8))
str_to_bits(s) ==
    [i \in 1..(8 * Len(s)) |-> bin8(s[((i - 1) \div 8) + 1])[((i - 1) % 8) + 1]]

\* for i in range(0, len(bits), 8): ...; an incomplete last byte is dropped
bits_to_str(bits) ==
    [k \in 1..(Len(bits) \div 8) |->
        bits_to_int(SubSeq(bits, 8 * (k - 1) + 1, 8 * k))]

\* a checksum that is not reduced modulo 256
calculate_crc_unreduced(bits) == bin8(sum(bits))

calculate_crc(bits) == bin8(sum(bits) % 256)

(***************************************************************************)
(* Packet                                                                  *)
(***************************************************************************)
Packet(src, dst, payload_str, type, seq) ==
    [src |-> src, dst |-> dst, type |-> type, seq |-> seq,
     payload |-> payload_str]

\* a serializer that writes TYPE = 1 for every packet
to_bits_always_data(self) ==
    LET payload_bits == str_to_bits(self.payload)
        data == bin8(self.src) \o bin8(self.dst)
                \o bin8(1)
                \o bin8(self.seq % 256)
                \o bin8(Len(payload_bits) \div 8)
                \o payload_bits
    IN  data \o calculate_crc(data)

to_bits(self) ==
    LET payload_bits == str_to_bits(self.payload)
        data == bin8(self.src) \o bin8(self.dst)
                \o bin8(IF self.type = "DATA" THEN 1 ELSE 2)
                \o bin8(self.seq % 256)
                \o bin8(Len(payload_bits) \div 8)
                \o payload_bits
    IN  data \o calculate_crc(data)

\* a parser that takes the last 8 bits handed to it for the checksum
from_bits_crc_last(bits) ==
    IF Len(bits) < 48 THEN None
    ELSE
      LET length == bits_to_int(py_slice(bits, 32, 40))
          payload_end == 40 + length * 8
      IN  IF payload_end + 8 > Len(bits) THEN None
          ELSE IF py_slice(bits, Len(bits) - 8, Len(bits))
                    # calculate_crc(py_slice(bits, 0, payload_end))
               THEN None
               ELSE Some(Packet(bits_to_int(py_slice(bits, 0, 8)),
                                bits_to_int(py_slice(bits, 8, 16)),
                                bits_to_str(py_slice(bits, 40, payload_end)),
                                IF bits_to_int(py_slice(bits, 16, 24)) = 1
                                THEN "DATA" ELSE "ACK",
                                bits_to_int(py_slice(bits, 24, 32))))

\* a parser that does not compare the checksum
from_bits_no_crc(bits) ==
    IF Len(bits) < 48 THEN None
    ELSE
      LET length == bits_to_int(py_slice(bits, 32, 40))
          payload_end == 40 + length * 8
      IN  IF payload_end + 8 > Len(bits) THEN None
          ELSE Some(Packet(bits_to_int(py_slice(bits, 0, 8)),
                           bits_to_int(py_slice(bits, 8, 16)),
                           bits_to_str(py_slice(bits, 40, payload_end)),
                           IF bits_to_int(py_slice(bits, 16, 24)) = 1
                           THEN "DATA" ELSE "ACK",
                           bits_to_int(py_slice(bits, 24, 32))))

from_bits(bits) ==
    IF Len(bits) < 48 THEN None
    ELSE
      LET src == bits_to_int(py_slice(bits, 0, 8))
          dst == bits_to_int(py_slice(bits, 8, 16))
          type_int == bits_to_int(py_slice(bits, 16, 24))
          seq == bits_to_int(py_slice(bits, 24, 32))
          length == bits_to_int(py_slice(bits, 32, 40))
          payload_start == 40
          payload_end == payload_start + length * 8
      IN  IF payload_end + 8 > Len(bits) THEN None
          ELSE
            LET payload_bits == py_slice(bits, payload_start, payload_end)
                received_crc == py_slice(bits, payload_end, payload_end + 8)
                calculated_crc == calculate_crc(py_slice(bits, 0, payload_end))
            IN  IF received_crc # calculated_crc THEN None
                ELSE Some(Packet(src, dst, bits_to_str(payload_bits),
                                 IF type_int = 1 THEN "DATA" ELSE "ACK", seq))

(***************************************************************************)
(* The event log.  Of the module-global list SIM_EVENTS the model keeps    *)
(* how many entries it holds and, in full, the entries the latest          *)
(* operation appended.                                                     *)
(***************************************************************************)
record_event(time_point, host_id, action, seq, ptype, status) ==
    [time |-> time_point, host |-> host_id, action |-> action,
     seq |-> seq, type |-> ptype, status |-> status]

\* SIM_EVENTS.append(...) for each of the entries, in order
append_events(log, entries) ==
    [count |-> log.count + Len(entries), appended |-> entries]

(***************************************************************************)
(* What line 268 can yield for a transmitted signal: the channel           *)
(* (attenuation, noise, delay, fading) followed by Modem.demodulate.       *)
(***************************************************************************)
flip(bits, i) == [j \in 1..Len(bits) |-> IF j = i THEN 1 - bits[j] ELSE bits[j]]

FlipPositions == {32}
TruncatedLengths(n) == {47}

demodulated(signal) ==
    {signal, <<>>}
    \cup {flip(signal, i) : i \in FlipPositions \cap (1..Len(signal))}
    \cup {SubSeq(signal, 1, n) : n \in TruncatedLengths(Len(signal))}

(***************************************************************************)
(* Host                                                                    *)
(***************************************************************************)
\* The frames the endpoints of this model can put on the medium, and what
\* can come out of line 268 for them; to_bits and from_bits are tabulated
\* over these once, and computed directly for anything else.
Frames ==
    {Packet(s, d, m, "DATA", q) :
        s \in Senders, d \in Targets, m \in Messages,
        q \in (0..MaxSends) \cup (WrapStart..(WrapStart + MaxSends))}
    \cup {Packet(s, d, ACK_PAYLOAD, "ACK", q) :
        s \in Hosts, d \in Senders, q \in (0..MaxSends) \cup {WrapStart}}

ToBits == [p \in Frames |-> to_bits(p)]

FromBits ==
    [b \in UNION {demodulated(ToBits[p]) : p \in Frames} |-> from_bits(b)]

serialize(packet) ==
    IF packet \in DOMAIN ToBits THEN ToBits[packet] ELSE to_bits(packet)

parse(bits) ==
    IF bits \in DOMAIN FromBits THEN FromBits[bits] ELSE from_bits(bits)

\* Host._transmit_packet: the waveform of the packet's bits
transmit_packet(packet) == serialize(packet)

\* dict iteration order: keys are inserted in increasing order of next_seq
\* and a deleted key is never inserted again, so insertion order is
\* ascending key order
RECURSIVE dict_keys(_)
dict_keys(S) ==
    IF S = {} THEN <<>>
    ELSE LET m == CHOOSE x \in S : \A y \in S : x <= y
         IN  <<m>> \o dict_keys(S \ {m})

\* a send that keeps one entry only, the newest
send_pending_replace(pend, seq, packet, current_time, reliable) ==
    IF reliable
    THEN [k \in {seq} |-> [packet |-> packet, sent_time |-> current_time]]
    ELSE pend

\* a send that stamps the entry with time 0 whatever the time is
send_pending_epoch(pend, seq, packet, current_time, reliable) ==
    IF reliable
    THEN [k \in DOMAIN pend \cup {seq} |->
            IF k = seq THEN [packet |-> packet, sent_time |-> 0]
            ELSE pend[k]]
    ELSE pend

\* self.pending_acks[self.next_seq] = {'packet': ..., 'sent_time': ...}
send_pending(pend, seq, packet, current_time, reliable) ==
    IF reliable
    THEN [k \in DOMAIN pend \cup {seq} |->
            IF k = seq THEN [packet |-> packet, sent_time |-> current_time]
            ELSE pend[k]]
    ELSE pend

\* a send that uses up a seq whether reliable or not
send_next_seq_always(n, reliable) == n + 1

\* self.next_seq += 1
send_next_seq(n, reliable) == IF reliable THEN n + 1 ELSE n

\* a receiver that takes the header fields of any frame of sufficient
\* length, whatever its checksum
receive_frame_unchecked(bits) ==
    IF Len(bits) < 48 THEN None
    ELSE Some(Packet(bits_to_int(py_slice(bits, 0, 8)),
                     bits_to_int(py_slice(bits, 8, 16)),
                     bits_to_str(py_slice(bits, 40, Len(bits) - 8)),
                     IF bits_to_int(py_slice(bits, 16, 24)) = 1
                     THEN "DATA" ELSE "ACK",
                     bits_to_int(py_slice(bits, 24, 32))))

\* bits = demodulate(...); if not bits: return; packet = from_bits(bits);
\* if packet is None: return -- the frame receive goes on with, if any
receive_frame(bits) == IF bits = <<>> THEN None ELSE parse(bits)

\* an endpoint that takes the frames it sent itself
addressed_to_src(packet, address) == packet.src = address

\* an endpoint that takes every frame as its own
addressed_to_anyone(packet, address) == TRUE

\* if packet.dst == self.address
addressed_to(packet, address) == packet.dst = address

\* an ACK that empties the pending table
ack_pending_clear(pend, seq) == <<>>

\* an ACK that leaves the pending table as it is
ack_pending_keep(pend, seq) == pend

\* if packet.seq in self.pending_acks: del self.pending_acks[packet.seq]
ack_pending(pend, seq) == [k \in DOMAIN pend \ {seq} |-> pend[k]]

\* a receiver that takes every frame for one it has delivered
is_duplicate_always(seen, packet_id) == TRUE

\* a receiver that keeps no record of what it has delivered
is_duplicate_never(seen, packet_id) == FALSE

\* if packet_id in self.received_seqs
is_duplicate(seen, packet_id) == packet_id \in seen

\* an ACK that acknowledges the seq after the one received
make_ack_next(address, packet) ==
    Packet(address, packet.src, ACK_PAYLOAD, "ACK", packet.seq + 1)

\* an ACK sent back to the frame's destination instead of its source
make_ack_to_dst(address, packet) ==
    Packet(address, packet.dst, ACK_PAYLOAD, "ACK", packet.seq)

\* Packet(self.address, packet.src, "ACK", 'ACK', seq=packet.seq)
make_ack(address, packet) ==
    Packet(address, packet.src, ACK_PAYLOAD, "ACK", packet.seq)

\* a timeout that already fires when the interval has just elapsed
is_timed_out_at_deadline(current_time, sent_time) ==
    current_time - sent_time >= timeout_interval

\* if current_time - info['sent_time'] > self.timeout_interval
is_timed_out(current_time, sent_time) ==
    current_time - sent_time > timeout_interval

\* the keys the loop of check_timeouts retransmits, in iteration order
timed_out_keys(pend, current_time) ==
    dict_keys({k \in DOMAIN pend :
                  is_timed_out(current_time, pend[k].sent_time)})

\* a retransmission that does not restart the entry's timer
pending_after_timeouts_stale(pend, current_time) == pend

\* a retransmission that gives the entry up
pending_after_timeouts_drop(pend, current_time) ==
    [k \in {j \in DOMAIN pend :
                ~is_timed_out(current_time, pend[j].sent_time)} |-> pend[k]]

\* a retransmission that numbers the stored frame anew
pending_after_timeouts_renumbered(pend, current_time) ==
    [k \in DOMAIN pend |->
        IF is_timed_out(current_time, pend[k].sent_time)
        THEN [packet |-> [pend[k].packet EXCEPT !.seq = @ + 1],
              sent_time |-> current_time]
        ELSE pend[k]]

\* info['sent_time'] = current_time, for the retransmitted entries only
pending_after_timeouts(pend, current_time) ==
    [k \in DOMAIN pend |->
        IF is_timed_out(current_time, pend[k].sent_time)
        THEN [packet |-> pend[k].packet, sent_time |-> current_time]
        ELSE pend[k]]

\* a retransmission that numbers the frame anew
retransmit_data_renumbered(pend, current_time) ==
    LET ks == timed_out_keys(pend, current_time)
        renumbered(k) == [pend[k].packet EXCEPT !.seq = @ + 1]
    IN  [i \in 1..Len(ks) |->
            [signal |-> transmit_packet(renumbered(ks[i])),
             packet |-> renumbered(ks[i])]]

\* retransmit_data.append((signal, packet))
retransmit_data(pend, current_time) ==
    LET ks == timed_out_keys(pend, current_time)
    IN  [i \in 1..Len(ks) |->
            [signal |-> transmit_packet(pend[ks[i]].packet),
             packet |-> pend[ks[i]].packet]]

\* record_event(current_time, self.address, "Timeout", seq, "EVENT")
timeout_events(address, pend, current_time) ==
    LET ks == timed_out_keys(pend, current_time)
    IN  [i \in 1..Len(ks) |->
            record_event(current_time, address, "Timeout", ks[i], "EVENT",
                         "Success")]

\* the step that led to the current state: the operation, the endpoint,
\* whether the send was reliable, whether line 268 yielded any bits and
\* what Packet.from_bits made of them
NoCall ==
    [op |-> "init", host |-> 0, reliable |-> FALSE, got_bits |-> FALSE,
     frame |-> None]

NoReturn ==
    [signal |-> None, packet |-> None,
     response_signal |-> None, app_data |-> None, response_packet |-> None,
     retransmit_data |-> <<>>]

(***************************************************************************)
(* History kept beside the program's state: app_log counts how often each  *)
(* endpoint surfaced each (src, seq); acks_processed holds, per endpoint,  *)
(* the seqs of the ACKs it processed, each with whether next_seq had       *)
(* already passed that seq; send_log holds, for each pending entry, the    *)
(* signal and time of its reliable send and how often it was               *)
(* retransmitted since; sent_reliably lists, per endpoint and in order,    *)
(* the keys its reliable sends put into pending_acks; delivered holds, per *)
(* endpoint, the payloads it surfaced, each with the src of its frame.     *)
(***************************************************************************)
surface(log, packet_id) ==
    [id \in DOMAIN log \cup {packet_id} |->
        IF id = packet_id
        THEN (IF id \in DOMAIN log THEN log[id] + 1 ELSE 1)
        ELSE log[id]]

\* no frame is being encoded or decoded; no waveform is in the modem
NoCodec ==
    [stage |-> "idle", packet |-> None, sent |-> <<>>, bits |-> <<>>,
     result |-> None]

NoModem ==
    [stage |-> "idle", scheme |-> "ASK", bits |-> <<>>, signal |-> <<>>,
     inverted |-> FALSE, delay |-> 0, silent |-> FALSE, result |-> <<>>,
     samples_per_bit |-> samples_per_bit]

\* run_simulation has not been called.  pc is the driver's position, step
\* the scenario, phase what called propagate, time sim_state['time'] in
\* half seconds, stack the frames of propagate that have not returned,
\* retries what is left of the list check_timeouts returned.  Each frame an
\* endpoint returns is known by its number of production.  sent holds, per
\* sending endpoint, the frames in the order propagate transmitted them,
\* lost those the loss window took, received, per receiving endpoint, the
\* frames in the order its receive was handed them; intact tells that
\* receive has so far been handed the bits of each frame as they were sent.
NoDriver ==
    [pc |-> "idle", step |-> 0, phase |-> "script", time |-> 0,
     stack |-> <<>>, retries |-> <<>>, nproduced |-> 0,
     sent |-> [h \in Hosts |-> <<>>],
     received |-> [h \in Hosts |-> <<>>],
     lost |-> {}, intact |-> TRUE]

\* two fresh endpoints, an empty event log, nothing in flight
FreshNetwork ==
    /\ next_seq = [h \in Hosts |-> 0]
    /\ received_seqs = [h \in Hosts |-> {}]
    /\ pending_acks = [h \in Hosts |-> <<>>]
    /\ SIM_EVENTS = [count |-> 0, appended |-> <<>>]
    /\ now = 0
    /\ medium = {}
    /\ call = NoCall
    /\ ret = NoReturn
    /\ app_log = [h \in Hosts |-> <<>>]
    /\ acks_processed = [h \in Hosts |-> {}]
    /\ send_log = [h \in Hosts |-> <<>>]
    /\ nsends = 0
    /\ sent_reliably = [h \in Hosts |-> <<>>]
    /\ delivered = [h \in Hosts |-> {}]

Init ==
    /\ FreshNetwork
    /\ codec = NoCodec
    /\ modem = NoModem
    /\ driver = NoDriver

send(h, target_address, message, current_time, reliable) ==
    LET packet == Packet(h, target_address, message, "DATA", next_seq[h])
        signal == transmit_packet(packet)
        pend == send_pending(pending_acks[h], next_seq[h], packet,
                             current_time, reliable)
    IN  /\ nsends' = nsends + 1
        /\ pending_acks' = [pending_acks EXCEPT ![h] = pend]
        /\ next_seq' = [next_seq EXCEPT ![h] = send_next_seq(@, reliable)]
        /\ ret' = [NoReturn EXCEPT !.signal = Some(signal),
                                   !.packet = Some(packet)]
        /\ call' = [NoCall EXCEPT !.op = "send", !.host = h,
                                   !.reliable = reliable]
        /\ medium' = medium \cup {signal}
        /\ send_log' = [send_log EXCEPT ![h] =
                [k \in DOMAIN pend |->
                    IF reliable /\ k = next_seq[h]
                    THEN [signal |-> signal, time |-> current_time,
                          retransmissions |-> 0]
                    ELSE @[k]]]
        /\ SIM_EVENTS' = append_events(SIM_EVENTS, <<>>)
        /\ sent_reliably' =
               IF reliable
               THEN [sent_reliably EXCEPT ![h] = Append(@, next_seq[h])]
               ELSE sent_reliably
        /\ UNCHANGED <<received_seqs, now, app_log, acks_processed,
                       codec, modem, delivered>>

\* the entries Host.receive appends to SIM_EVENTS (line 279)
received_events(h, bits, current_time) ==
    LET parsed == receive_frame(bits)
        packet == parsed[1]
    IN  IF parsed # None /\ addressed_to(packet, h)
        THEN <<record_event(current_time, h, "Receive",
                            packet.seq, packet.type, "Success")>>
        ELSE <<>>

receive(h, bits, current_time) ==
    LET parsed == receive_frame(bits)
        packet == parsed[1]
        accepted == parsed # None /\ addressed_to(packet, h)
        is_ack == accepted /\ packet.type = "ACK"
        is_data == accepted /\ packet.type = "DATA"
        packet_id == <<packet.src, packet.seq>>
        fresh == is_data /\ ~is_duplicate(received_seqs[h], packet_id)
        response_packet == make_ack(h, packet)
        pend == IF is_ack THEN ack_pending(pending_acks[h], packet.seq)
                ELSE pending_acks[h]
        events == received_events(h, bits, current_time)
    IN  /\ SIM_EVENTS' = append_events(SIM_EVENTS, events)
        /\ pending_acks' = [pending_acks EXCEPT ![h] = pend]
        /\ received_seqs' =
               IF fresh
               THEN [received_seqs EXCEPT ![h] = @ \cup {packet_id}]
               ELSE received_seqs
        /\ ret' = IF is_data
                  THEN [NoReturn EXCEPT
                          !.response_signal =
                              Some(transmit_packet(response_packet)),
                          !.app_data =
                              IF fresh THEN Some(packet.payload) ELSE None,
                          !.response_packet = Some(response_packet)]
                  ELSE NoReturn
        /\ medium' = IF is_data
                     THEN medium \cup {transmit_packet(response_packet)}
                     ELSE medium
        /\ call' = [NoCall EXCEPT !.op = "receive", !.host = h,
                                   !.got_bits = (bits # <<>>),
                                   !.frame = IF bits = <<>> THEN None
                                             ELSE parse(bits)]
        /\ app_log' = IF fresh
                      THEN [app_log EXCEPT ![h] = surface(@, packet_id)]
                      ELSE app_log
        /\ acks_processed' =
               IF is_ack
               THEN [acks_processed EXCEPT ![h] =
                        @ \cup {<<packet.seq, packet.seq < next_seq[h]>>}]
               ELSE acks_processed
        /\ send_log' = [send_log EXCEPT ![h] =
                                [k \in DOMAIN pend |-> @[k]]]
        /\ delivered' =
               IF fresh
               THEN [delivered EXCEPT ![h] =
                        @ \cup {<<packet.src, packet.payload>>}]
               ELSE delivered
        /\ UNCHANGED <<next_seq, now, nsends, sent_reliably, codec, modem>>

check_timeouts(h, current_time) ==
    LET pend == pending_after_timeouts(pending_acks[h], current_time)
        events == timeout_events(h, pending_acks[h], current_time)
        retransmit == retransmit_data(pending_acks[h], current_time)
    IN  /\ SIM_EVENTS' = append_events(SIM_EVENTS, events)
        /\ pending_acks' = [pending_acks EXCEPT ![h] = pend]
        /\ ret' = [NoReturn EXCEPT !.retransmit_data = retransmit]
        /\ medium' = medium \cup {retransmit[i].signal :
                                     i \in 1..Len(retransmit)}
        /\ call' = [NoCall EXCEPT !.op = "check_timeouts", !.host = h]
        /\ send_log' = [send_log EXCEPT ![h] =
               [k \in DOMAIN pend |->
                   IF \E i \in 1..Len(retransmit) :
                          retransmit[i].packet.seq = k
                   THEN [@[k] EXCEPT !.retransmissions =
                                         Min(@ + 1, MaxRetransmissions)]
                   ELSE @[k]]]
        /\ UNCHANGED <<next_seq, received_seqs, now, app_log,
                       acks_processed, nsends, sent_reliably, codec, modem,
                       delivered>>

\* the driver's clock: sim_state['time'] += ...
advance_time(limit) ==
    /\ now < limit
    /\ now' = now + 1
    /\ call' = [NoCall EXCEPT !.op = "advance_time"]
    /\ ret' = NoReturn
    /\ UNCHANGED <<next_seq, pending_acks, received_seqs, SIM_EVENTS,
                   medium, app_log, acks_processed, send_log, nsends,
                   sent_reliably, codec, modem, delivered, driver>>

\* the model follows SIM_EVENTS up to MaxEvents entries
log_has_room(entries) == SIM_EVENTS.count + Len(entries) <= MaxEvents

Send(messages) ==
    \E h \in Senders, target_address \in Targets, message \in messages,
       reliable \in BOOLEAN :
        /\ nsends < MaxSends
        /\ send(h, target_address, message, now, reliable)
        /\ UNCHANGED driver

Receive ==
    \E h \in Hosts, signal \in medium :
        \E bits \in demodulated(signal) :
            /\ log_has_room(received_events(h, bits, now))
            /\ receive(h, bits, now)
            /\ UNCHANGED driver

CheckTimeouts ==
    \E h \in Hosts :
        /\ log_has_room(timeout_events(h, pending_acks[h], now))
        /\ check_timeouts(h, now)
        /\ UNCHANGED driver

Next == Send(Messages) \/ Receive \/ CheckTimeouts \/ advance_time(MaxTime)

Spec == Init /\ [][Next]_vars

\* one kind of message, and a clock that runs past two timeouts
NextRetry ==
    Send(RetryMessages) \/ Receive \/ CheckTimeouts
    \/ advance_time(MaxRetryTime)

SpecRetry == Init /\ [][NextRetry]_vars

\* A third endpoint on the cable, Host(3): what it acknowledges to endpoint 1
\* is the frame of line 297 with its own address as src.
OtherHost == 3

\* Packet(self.address, packet.src, "ACK", 'ACK', seq=packet.seq) of Host(3)
other_ack(dst, seq) == Packet(OtherHost, dst, ACK_PAYLOAD, "ACK", seq)

\* an endpoint is handed an ACK of the third endpoint for a seq it has pending
ReceiveOther ==
    \E h \in Senders : \E seq \in DOMAIN pending_acks[h] :
        LET bits == to_bits(other_ack(h, seq))
        IN  /\ log_has_room(received_events(h, bits, now))
            /\ receive(h, bits, now)
            /\ UNCHANGED driver

NextOther ==
    Send(RetryMessages) \/ Receive \/ ReceiveOther \/ CheckTimeouts
    \/ advance_time(MaxTime)

SpecOther == Init /\ [][NextOther]_vars

\* Endpoint 1 has made WrapStart reliable sends to endpoint 2, each was
\* delivered once and acknowledged; since then the driver has cleared the
\* event log (SIM_EVENTS.clear()) and no signal is left in flight.  nsends
\* and the clock count from this moment.
InitWrap ==
    /\ next_seq = [h \in Hosts |-> IF h = 1 THEN WrapStart ELSE 0]
    /\ received_seqs =
          [h \in Hosts |->
              IF h = 2 THEN {<<1, q>> : q \in 0..(WrapStart - 1)} ELSE {}]
    /\ pending_acks = [h \in Hosts |-> <<>>]
    /\ SIM_EVENTS = [count |-> 0, appended |-> <<>>]
    /\ now = 0
    /\ medium = {}
    /\ call = NoCall
    /\ ret = NoReturn
    /\ app_log =
          [h \in Hosts |->
              IF h = 2
              THEN [id \in {<<1, q>> : q \in 0..(WrapStart - 1)} |-> 1]
              ELSE <<>>]
    /\ acks_processed =
          [h \in Hosts |->
              IF h = 1 THEN {<<q, TRUE>> : q \in 0..(WrapStart - 1)} ELSE {}]
    /\ send_log = [h \in Hosts |-> <<>>]
    /\ nsends = 0
    /\ sent_reliably =
          [h \in Hosts |->
              IF h = 1 THEN [i \in 1..WrapStart |-> i - 1] ELSE <<>>]
    /\ delivered =
          [h \in Hosts |->
              IF h = 2 THEN {<<1, m>> : m \in RetryMessages} ELSE {}]
    /\ codec = NoCodec
    /\ modem = NoModem
    /\ driver = NoDriver

NextWrap ==
    Send(RetryMessages) \/ Receive \/ CheckTimeouts \/ advance_time(MaxTime)

SpecWrap == InitWrap /\ [][NextWrap]_vars

(***************************************************************************)
(* The endpoints under a driver that never stops: it keeps sending         *)
(* reliably, keeps calling check_timeouts, puts what is returned on the    *)
(* medium and clears the event log between runs.  The clock is kept        *)
(* relative: line 310 reads time only as current_time - sent_time, so the  *)
(* pass of one unit of time moves every stored sent_time one unit back,    *)
(* no further than timeout_interval + 1, beyond which line 310 cannot tell *)
(* two elapsed times apart.                                                *)
(***************************************************************************)
Max(a, b) == IF a > b THEN a ELSE b

\* sim_state['time'] += ..., seen from the entries
pass_time ==
    LET back(t) == Max(t - 1, now - (timeout_interval + 1))
    IN  /\ pending_acks' =
              [h \in Hosts |->
                  [k \in DOMAIN pending_acks[h] |->
                      [pending_acks[h][k] EXCEPT !.sent_time = back(@)]]]
        /\ send_log' =
              [h \in Hosts |->
                  [k \in DOMAIN send_log[h] |->
                      [send_log[h][k] EXCEPT !.time = back(@)]]]
        /\ call' = [NoCall EXCEPT !.op = "advance_time"]
        /\ ret' = NoReturn
        /\ UNCHANGED <<next_seq, received_seqs, SIM_EVENTS, now, medium,
                       app_log, acks_processed, nsends, sent_reliably,
                       codec, modem, delivered, driver>>

\* SIM_EVENTS.clear()
clear_events ==
    /\ SIM_EVENTS.count > 0
    /\ SIM_EVENTS' = [count |-> 0, appended |-> <<>>]
    /\ call' = [NoCall EXCEPT !.op = "clear"]
    /\ ret' = NoReturn
    /\ UNCHANGED <<next_seq, pending_acks, received_seqs, now, medium,
                   app_log, acks_processed, send_log, nsends, sent_reliably,
                   codec, modem, delivered, driver>>

\* a stop-and-wait driver: the next send waits for the acknowledgement of
\* the last, and the log is read and cleared after every call that wrote
\* to it
SendReliably ==
    \E h \in Senders, target_address \in Targets, message \in RetryMessages :
        /\ pending_acks[h] = <<>>
        /\ SIM_EVENTS.count = 0
        /\ nsends < MaxSends
        /\ send(h, target_address, message, now, TRUE)
        /\ UNCHANGED driver

\* the channel hands a signal over intact
deliver(h, signal) ==
    /\ signal \in medium
    /\ SIM_EVENTS.count = 0
    /\ receive(h, signal, now)
    /\ UNCHANGED driver

Deliver == \E h \in Hosts, signal \in medium : deliver(h, signal)

LiveCheckTimeouts ==
    \E h \in Senders :
        /\ SIM_EVENTS.count = 0
        /\ check_timeouts(h, now)
        /\ UNCHANGED driver

NextLive ==
    SendReliably \/ Deliver \/ LiveCheckTimeouts \/ pass_time
    \/ clear_events

\* the frames the endpoints of this specification can put on the medium
LiveFrames ==
    {Packet(s, d, m, "DATA", q) :
        s \in Senders, d \in Targets, m \in RetryMessages,
        q \in WrapStart..(WrapStart + MaxSends - 1)}
    \cup {Packet(s, d, ACK_PAYLOAD, "ACK", q % SeqModulus) :
        s \in Targets, d \in Senders,
        q \in WrapStart..(WrapStart + MaxSends - 1)}

\* The driver keeps sending, checking timeouts, letting time pass and
\* clearing the log; the channel loses a signal only finitely often in a
\* row, so each signal that stays on offer is handed intact to its
\* destination again and again.
FairLive ==
    /\ WF_vars(SendReliably)
    /\ WF_vars(pass_time)
    /\ WF_vars(clear_events)
    /\ SF_vars(LiveCheckTimeouts)
    /\ \A p \in LiveFrames : SF_vars(deliver(p.dst, serialize(p)))

SpecLive == InitWrap /\ [][NextLive]_vars /\ FairLive

(***************************************************************************)
(* Packet.to_bits and Packet.from_bits on their own: a packet is           *)
(* serialized, the bits are handed to from_bits intact, with one bit       *)
(* flipped, cut short or followed by a stray bit.                          *)
(***************************************************************************)
\* the LEN field is written with zfill(8)
LenBits == 8
MaxLEN == 2^LenBits - 1

CodecAddresses == {1, 2, MaxLEN}
CodecSeqs == {0, WrapStart}
CodecTypes == {"DATA", "ACK"}
\* "", "\x00", "\xff", "\x03A" and 255 times "A"
LongPayload == [i \in 1..MaxLEN |-> 65]
CodecPayloads == {<<>>, <<0>>, <<MaxLEN>>, <<3, 65>>}

CodecPackets ==
    {Packet(s, d, m, t, q) :
        s \in CodecAddresses, d \in CodecAddresses, m \in CodecPayloads,
        t \in CodecTypes, q \in CodecSeqs}
    \cup {Packet(1, 2, LongPayload, t, WrapStart) : t \in CodecTypes}

CodecCuts(n) == {0, 47, 48, n - 1} \cap (0..(n - 1))

InitFrame ==
    /\ FreshNetwork
    /\ modem = NoModem
    /\ driver = NoDriver
    /\ codec \in {[NoCodec EXCEPT !.stage = "packet", !.packet = Some(p)] :
                     p \in CodecPackets}

\* bits = packet.to_bits()
to_bits_call ==
    /\ codec.stage = "packet"
    /\ codec' = [codec EXCEPT !.stage = "bits",
                               !.sent = to_bits(codec.packet[1]),
                               !.bits = to_bits(codec.packet[1])]
    /\ UNCHANGED <<network, modem, driver>>

\* one bit arrives inverted
flip_bit(i) ==
    /\ codec.stage = "bits"
    /\ codec' = [codec EXCEPT !.stage = "flipped",
                               !.bits = flip(codec.bits, i)]
    /\ UNCHANGED <<network, modem, driver>>

\* only the first n bits arrive
truncate(n) ==
    /\ codec.stage = "bits"
    /\ codec' = [codec EXCEPT !.stage = "truncated",
                               !.bits = SubSeq(codec.bits, 1, n)]
    /\ UNCHANGED <<network, modem, driver>>

\* what follows the frame: a stray bit, a stray byte, the bits of a frame
\* of 48 bits
CodecTails ==
    {<<0>>, <<1>>, <<1, 1, 1, 1, 1, 1, 1, 1>>, <<0, 0, 0, 0, 0, 0, 0, 0>>,
     to_bits(Packet(2, 1, <<>>, "ACK", 0))}

\* stray bits follow the frame
pad(tail) ==
    /\ codec.stage = "bits"
    /\ codec' = [codec EXCEPT !.stage = "padded",
                               !.bits = codec.bits \o tail]
    /\ UNCHANGED <<network, modem, driver>>

\* the bits of the TYPE field, and the two of them that arrive exchanged
TypeBits == (2 * LenBits + 1)..(3 * LenBits)

exchange_bits(i, j) ==
    /\ codec.stage = "bits"
    /\ codec.bits[i] # codec.bits[j]
    /\ codec' = [codec EXCEPT !.stage = "exchanged",
                               !.bits = flip(flip(codec.bits, i), j)]
    /\ UNCHANGED <<network, modem, driver>>

\* packet = Packet.from_bits(bits)
from_bits_call ==
    /\ codec.stage \in {"bits", "flipped", "truncated", "padded",
                        "exchanged"}
    /\ codec' = [codec EXCEPT !.stage = "parsed",
                               !.result = from_bits(codec.bits)]
    /\ UNCHANGED <<network, modem, driver>>

FlipBit == \E i \in 1..Len(codec.bits) : flip_bit(i)

Truncate == \E n \in CodecCuts(Len(codec.bits)) : truncate(n)

Pad == \E tail \in CodecTails : pad(tail)

ExchangeBits == \E i, j \in TypeBits : i < j /\ exchange_bits(i, j)

NextFrame ==
    to_bits_call \/ FlipBit \/ Truncate \/ Pad \/ ExchangeBits
    \/ from_bits_call

SpecFrame == InitFrame /\ [][NextFrame]_vars

(***************************************************************************)
(* The Modem, sample by sample.  A sample is kept exactly: a level sample  *)
(* of ASK is amp, a carrier sample of BPSK is amp * sin(2*pi*2*t[ph]) with *)
(* t = linspace(0, 1, samples_per_bit, endpoint=False), that is            *)
(* amp * sin(ph * 36 degrees).  A product or a sum of products of samples  *)
(* is the pair <<a, b>> that stands for (a + b * sqrt(5)) / 8: 8 times the *)
(* product of two carrier samples is 4*cos((j-k) * 36 degrees) less        *)
(* 4*cos((j+k) * 36 degrees), and 4*cos(m * 36 degrees) is 4, 1 + sqrt(5), *)
(* -1 + sqrt(5), 1 - sqrt(5), -1 - sqrt(5), -4 for m = 0..5.  Sums,        *)
(* signs and comparisons of such pairs are exact; the rounding of the      *)
(* floating-point sums is not modelled.  The FSK branches are not          *)
(* modelled.                                                               *)
(***************************************************************************)
preamble == <<1, 0, 1, 0, 1, 0, 1, 0>>

Schemes == {"ASK", "BPSK"}

\* 4 * cos(m * 36 degrees)
Cos4(m) ==
    LET r == m % 10
    IN  CASE r = 0 -> <<4, 0>>
          [] r \in {1, 9} -> <<1, 1>>
          [] r \in {2, 8} -> <<-1, 1>>
          [] r \in {3, 7} -> <<1, -1>>
          [] r \in {4, 6} -> <<-1, -1>>
          [] r = 5 -> <<-4, 0>>

\* 8 * sin(j * 36 degrees) * sin(k * 36 degrees), for the samples j and k of
\* the carrier
carrier_product ==
    [j \in 0..(samples_per_bit - 1) |->
        [k \in 0..(samples_per_bit - 1) |->
            LET c == Cos4(j - k + samples_per_bit)
                d == Cos4(j + k)
            IN  <<c[1] - d[1], c[2] - d[2]>>]]

\* 8 times the product of two samples of the same kind
times(x, y) ==
    CASE x.amp = 0 \/ y.amp = 0 -> <<0, 0>>
      [] x.amp # 0 /\ y.amp # 0 /\ x.wave = "level" /\ y.wave = "level" ->
            <<8 * x.amp * y.amp, 0>>
      [] x.amp # 0 /\ y.amp # 0 /\ x.wave = "carrier"
            /\ y.wave = "carrier" ->
            LET p == carrier_product[x.ph][y.ph]
            IN  <<x.amp * y.amp * p[1], x.amp * y.amp * p[2]>>

\* the sign of (v[1] + v[2] * sqrt(5)) / 8
Sign(v) ==
    IF v[1] = 0 /\ v[2] = 0 THEN 0
    ELSE IF v[1] >= 0 /\ v[2] >= 0 THEN 1
    ELSE IF v[1] <= 0 /\ v[2] <= 0 THEN -1
    ELSE IF v[1] > 0 THEN (IF v[1] * v[1] > 5 * v[2] * v[2] THEN 1 ELSE -1)
    ELSE (IF 5 * v[2] * v[2] > v[1] * v[1] THEN 1 ELSE -1)

\* np.abs
Abs(v) == IF Sign(v) < 0 THEN <<-v[1], -v[2]>> ELSE v

Less(u, v) == Sign(<<v[1] - u[1], v[2] - u[2]>>) > 0

\* 1.0
One == <<8, 0>>

\* the sum over n in lo..hi of signal[off + n] * ref[n]
RECURSIVE dot_range(_, _, _, _, _)
dot_range(signal, off, ref, lo, hi) ==
    IF lo > hi THEN <<0, 0>>
    ELSE IF lo = hi THEN times(signal[off + lo], ref[lo])
    ELSE LET mid == (lo + hi) \div 2
             l == dot_range(signal, off, ref, lo, mid)
             r == dot_range(signal, off, ref, mid + 1, hi)
         IN  <<l[1] + r[1], l[2] + r[2]>>

carrier_bpsk ==
    [n \in 1..samples_per_bit |->
        [wave |-> "carrier", amp |-> 1, ph |-> n - 1]]

\* the weights of np.mean over one bit, up to the factor samples_per_bit
level_one ==
    [n \in 1..samples_per_bit |-> [wave |-> "level", amp |-> 1, ph |-> 0]]

generate_waveform(bits, scheme) ==
    [i \in 1..(samples_per_bit * Len(bits)) |->
        LET b == bits[((i - 1) \div samples_per_bit) + 1]
            val == IF b = 1 THEN 1 ELSE -1
        IN  IF scheme = "ASK"
            THEN [wave |-> "level", amp |-> val, ph |-> 0]
            ELSE [wave |-> "carrier", amp |-> val,
                  ph |-> (i - 1) % samples_per_bit]]

modulate(bits, scheme) == generate_waveform(preamble \o bits, scheme)

\* np.correlate(signal, ref_preamble, mode='valid'), indexed from 0
correlate(signal, ref) ==
    [k \in 0..(Len(signal) - Len(ref)) |->
        dot_range(signal, k, ref, 1, Len(ref))]

argmax_abs_last(corr) ==
    CHOOSE i \in DOMAIN corr :
        \A j \in DOMAIN corr :
            /\ j > i => Less(Abs(corr[j]), Abs(corr[i]))
            /\ j < i => ~Less(Abs(corr[i]), Abs(corr[j]))

\* np.argmax(np.abs(corr)): the first index of the largest magnitude
argmax_abs(corr) ==
    CHOOSE i \in DOMAIN corr :
        \A j \in DOMAIN corr :
            /\ j < i => Less(Abs(corr[j]), Abs(corr[i]))
            /\ j > i => ~Less(Abs(corr[i]), Abs(corr[j]))

\* step 3 of demodulate: the bits after the preamble found at start_index
decode(signal, scheme, start_index) ==
    LET data_start == start_index + samples_per_bit * Len(preamble)
        num_bits == (Len(signal) - data_start) \div samples_per_bit
        weights == IF scheme = "ASK" THEN level_one ELSE carrier_bpsk
    IN  [i \in 1..num_bits |->
            IF Sign(dot_range(signal, data_start + samples_per_bit * (i - 1),
                              weights, 1, samples_per_bit)) > 0
            THEN 1 ELSE 0]

demodulate_uncorrected(signal, scheme) ==
    IF Len(signal) = 0 THEN <<>>
    ELSE LET ref_preamble == generate_waveform(preamble, scheme)
         IN  IF Len(signal) < Len(ref_preamble) THEN <<>>
             ELSE LET corr == correlate(signal, ref_preamble)
                      peak_idx == argmax_abs(corr)
                  IN  IF Less(Abs(corr[peak_idx]), One) THEN <<>>
                      ELSE decode(signal, scheme, peak_idx)

demodulate_unthresholded(signal, scheme) ==
    IF Len(signal) = 0 THEN <<>>
    ELSE LET ref_preamble == generate_waveform(preamble, scheme)
         IN  IF Len(signal) < Len(ref_preamble) THEN <<>>
             ELSE LET corr == correlate(signal, ref_preamble)
                      peak_idx == argmax_abs(corr)
                      decoded_bits == decode(signal, scheme, peak_idx)
                  IN  IF scheme = "BPSK" /\ Sign(corr[peak_idx]) < 0
                      THEN [i \in DOMAIN decoded_bits |->
                                1 - decoded_bits[i]]
                      ELSE decoded_bits

demodulate(signal, scheme) ==
    IF Len(signal) = 0 THEN <<>>
    ELSE LET ref_preamble == generate_waveform(preamble, scheme)
         IN  IF Len(signal) < Len(ref_preamble) THEN <<>>
             ELSE LET corr == correlate(signal, ref_preamble)
                      peak_idx == argmax_abs(corr)
                      decoded_bits == decode(signal, scheme, peak_idx)
                  IN  IF Less(Abs(corr[peak_idx]), One) THEN <<>>
                      ELSE IF scheme = "BPSK" /\ Sign(corr[peak_idx]) < 0
                      THEN [i \in DOMAIN decoded_bits |->
                                1 - decoded_bits[i]]
                      ELSE decoded_bits

\* the bit sequences handed to modulate
ModemBits == UNION {[1..n -> {0, 1}] : n \in 0..MaxBits}

InitModem ==
    /\ FreshNetwork
    /\ codec = NoCodec
    /\ driver = NoDriver
    /\ modem \in {[NoModem EXCEPT !.bits = b, !.scheme = s] :
                     b \in ModemBits, s \in Schemes}

modulate_call ==
    /\ modem.stage = "idle"
    /\ modem' = [modem EXCEPT !.stage = "modulated",
                              !.signal = modulate(modem.bits, modem.scheme)]
    /\ UNCHANGED <<network, codec, driver>>

\* the waveform reaches the demodulator as its inverted copy
invert ==
    /\ modem.stage = "modulated"
    /\ ~modem.inverted
    /\ ~modem.silent
    /\ Len(modem.signal) =
           modem.delay
           + samples_per_bit * (Len(preamble) + Len(modem.bits))
    /\ modem' = [modem EXCEPT
                    !.inverted = TRUE,
                    !.signal = [i \in DOMAIN modem.signal |->
                                   [modem.signal[i] EXCEPT !.amp = -@]]]
    /\ UNCHANGED <<network, codec, driver>>

\* a sample of value 0.0
zero_sample == [wave |-> "level", amp |-> 0, ph |-> 0]

\* the waveform reaches the demodulator later: zero-valued samples precede
\* it
delay ==
    /\ modem.stage = "modulated"
    /\ Len(modem.signal) =
           modem.delay
           + samples_per_bit * (Len(preamble) + Len(modem.bits))
    /\ modem.delay < MaxDelay * DelayStep
    /\ modem' = [modem EXCEPT
                    !.delay = @ + DelayStep,
                    !.signal = [i \in 1..DelayStep |-> zero_sample] \o @]
    /\ UNCHANGED <<network, codec, driver>>

\* the lengths a waveform of n samples is cut down to: nothing, one sample
\* less than the reference preamble, one sample less than it had
SignalCuts(n) ==
    {0, samples_per_bit * Len(preamble) - 1, n - 1} \cap (0..(n - 1))

\* only the first n samples of the waveform reach the demodulator
cut_signal(n) ==
    /\ modem.stage = "modulated"
    /\ ~modem.inverted
    /\ ~modem.silent
    /\ Len(modem.signal) =
           modem.delay
           + samples_per_bit * (Len(preamble) + Len(modem.bits))
    /\ modem' = [modem EXCEPT !.signal = SubSeq(@, 1, n)]
    /\ UNCHANGED <<network, codec, driver>>

CutSignal == \E n \in SignalCuts(Len(modem.signal)) : cut_signal(n)

\* the waveform reaches the demodulator with every sample at 0.0
silence ==
    /\ modem.stage = "modulated"
    /\ ~modem.inverted
    /\ ~modem.silent
    /\ Len(modem.signal) =
           modem.delay
           + samples_per_bit * (Len(preamble) + Len(modem.bits))
    /\ modem' = [modem EXCEPT
                    !.silent = TRUE,
                    !.signal = [i \in DOMAIN modem.signal |-> zero_sample]]
    /\ UNCHANGED <<network, codec, driver>>

demodulate_call ==
    /\ modem.stage = "modulated"
    /\ modem' = [modem EXCEPT
                    !.stage = "demodulated",
                    !.result = demodulate(modem.signal, modem.scheme)]
    /\ UNCHANGED <<network, codec, driver>>

NextModem ==
    modulate_call \/ invert \/ delay \/ CutSignal \/ silence
    \/ demodulate_call

SpecModem == InitModem /\ [][NextModem]_vars

(***************************************************************************)
(* The configuration of a Modem.  Modem(samples_per_bit = n) is called     *)
(* with any n; what is followed here is which calls return and which       *)
(* raise, which depends on the lengths of the waveforms only, so the       *)
(* waveforms are ASK levels whatever the scheme.                           *)
(***************************************************************************)
\* the values a caller passes as samples_per_bit
SamplesPerBit == -1..MaxSamplesPerBit

\* Modem.__init__ checks nothing itself; np.linspace(0, 1, n) of line 88
\* raises ValueError for a negative n and returns an empty array for n = 0
init_raises(n) == n < 0

\* _generate_waveform with n samples per bit, scheme ASK
generate_levels(bits, n) ==
    [i \in 1..(n * Len(bits)) |->
        [wave |-> "level",
         amp |-> IF bits[((i - 1) \div n) + 1] = 1 THEN 1 ELSE -1,
         ph |-> 0]]

\* demodulate raises: the signal is not empty (line 133) and not shorter than
\* the reference preamble (line 139), and the reference preamble is empty, so
\* np.correlate of line 144 raises ValueError (as would the division by
\* samples_per_bit of line 155)
demodulate_raises(signal, n) ==
    LET ref_preamble == generate_levels(preamble, n)
    IN  /\ Len(signal) # 0
        /\ ~(Len(signal) < Len(ref_preamble))
        /\ Len(ref_preamble) = 0

InitConfig ==
    /\ FreshNetwork
    /\ codec = NoCodec
    /\ driver = NoDriver
    /\ modem \in {[NoModem EXCEPT !.stage = "new", !.bits = b,
                                  !.samples_per_bit = n] :
                     b \in ModemBits, n \in SamplesPerBit}

\* Modem(samples_per_bit = n)
construct ==
    /\ modem.stage = "new"
    /\ modem' = [modem EXCEPT
                    !.stage = IF init_raises(modem.samples_per_bit)
                              THEN "rejected" ELSE "idle"]
    /\ UNCHANGED <<network, codec, driver>>

\* modem.modulate(bits)
config_modulate ==
    /\ modem.stage = "idle"
    /\ modem' = [modem EXCEPT
                    !.stage = "modulated",
                    !.signal = generate_levels(preamble \o modem.bits,
                                               modem.samples_per_bit)]
    /\ UNCHANGED <<network, codec, driver>>

\* the channel hands the modem a waveform of a peer whose modem has one
\* sample per bit
peer_signal ==
    /\ modem.stage = "idle"
    /\ modem' = [modem EXCEPT
                    !.stage = "modulated",
                    !.signal = generate_levels(preamble \o modem.bits, 1)]
    /\ UNCHANGED <<network, codec, driver>>

\* modem.demodulate(signal)
config_demodulate ==
    /\ modem.stage = "modulated"
    /\ modem' = [modem EXCEPT
                    !.stage = IF demodulate_raises(modem.signal,
                                                   modem.samples_per_bit)
                              THEN "raised" ELSE "demodulated"]
    /\ UNCHANGED <<network, codec, driver>>

NextConfig == construct \/ config_modulate \/ peer_signal \/ config_demodulate

SpecConfig == InitConfig /\ [][NextConfig]_vars

(***************************************************************************)
(* run_simulation, statement by statement.  propagate is followed in two   *)
(* steps, up to the loss window and from the call of receive on; a frame   *)
(* of propagate that returns ends every frame below it, since the          *)
(* recursive call is the last statement.  The driver's clock counts half   *)
(* seconds; send, check_timeouts and the event log get whole seconds, so   *)
(* the half second of arrival_time is dropped from the time stamp of an    *)
(* event, the only place where it shows.                                   *)
(***************************************************************************)
\* half seconds in a second: propagation_delay = 0.5
Tick == 2

seconds(t) == t \div Tick

\* "GET /index.html", "DATA 2", "CRITICAL" as character codes, each with
\* the sim_state['time'] += ... that follows its propagate
Script ==
    <<[message |-> <<71, 69, 84, 32, 47, 105, 110, 100, 101, 120, 46, 104,
                     116, 109, 108>>,
       wait |-> 2],
      [message |-> <<68, 65, 84, 65, 32, 50>>, wait |-> 3],
      [message |-> <<67, 82, 73, 84, 73, 67, 65, 76>>, wait |-> 4]>>

client == 1
server == 2

\* a channel without a loss window
is_loss_period_never(current_t) == FALSE

\* is_loss_period = (4.0 < current_t < 6.0)
is_loss_period(current_t) == 4 * Tick < current_t /\ current_t < 6 * Tick

\* a driver that hands a frame back to the endpoint that sent it
receiver_of_sender(sender) == sender

\* receiver = server if sender == client else client
receiver_of(sender) == IF sender = client THEN server ELSE client

\* for sig, pkt in retries: the list in the order check_timeouts built it
retry_order(retries) == retries

\* the TYPE field read as 1 where 2 was sent, or as 2 where 1 was sent: its
\* last two bits arrive inverted, which leaves the sum of the bits as it was
type_swapped(bits) == flip(flip(bits, 3 * LenBits - 1), 3 * LenBits)

\* what line 268 can yield in a call of propagate at this depth: what it
\* yields elsewhere, and the frame with its TYPE swapped
rendered(signal, depth) ==
    demodulated(signal)
    \cup (IF depth < MaxDepth /\ Len(signal) >= 3 * LenBits
          THEN {type_swapped(signal)} ELSE {})

\* propagate(sender, signal, packet_obj, current_t) is entered
frame_of(sender, signal, packet, current_t, id) ==
    [sender |-> sender, signal |-> signal, packet |-> packet,
     t |-> current_t, id |-> id]

\* the driver after the outermost propagate has returned
returned(d) == [d EXCEPT !.pc = "returned", !.stack = <<>>]

InitDriver ==
    /\ FreshNetwork
    /\ codec = NoCodec
    /\ modem = NoModem
    /\ driver = NoDriver

\* SIM_EVENTS.clear(); the channel and the two endpoints are made
run_simulation ==
    /\ driver.pc = "idle"
    /\ SIM_EVENTS' = [count |-> 0, appended |-> <<>>]
    /\ driver' = [driver EXCEPT !.pc = "send", !.step = 1]
    /\ UNCHANGED <<next_seq, pending_acks, received_seqs, now, medium, call,
                   ret, app_log, acks_processed, send_log, nsends,
                   sent_reliably, delivered, codec, modem>>

\* sig, pkt = client.send(2, ..., sim_state['time']) and the call of
\* propagate(client, sig, pkt, sim_state['time'])
script_send ==
    /\ driver.pc = "send"
    /\ send(client, server, Script[driver.step].message,
            seconds(driver.time), TRUE)
    /\ driver' = [driver EXCEPT
                    !.pc = "propagate",
                    !.phase = "script",
                    !.nproduced = @ + 1,
                    !.stack = <<frame_of(client, ret'.signal[1],
                                         ret'.packet[1], driver.time,
                                         driver.nproduced + 1)>>]

\* propagate up to the call of receive: the loss window and the Send event
propagate_transmit ==
    /\ driver.pc = "propagate"
    /\ LET f == driver.stack[Len(driver.stack)]
           lost == is_loss_period(f.t)
       IN  /\ SIM_EVENTS' =
                  append_events(SIM_EVENTS,
                      <<record_event(seconds(f.t), f.sender, "Send",
                                     f.packet.seq, f.packet.type,
                                     IF lost THEN "Lost" ELSE "Success")>>)
           /\ driver' = IF lost
                        THEN [returned(driver) EXCEPT
                                !.sent[f.sender] = Append(@, f.id),
                                !.lost = @ \cup {f.id}]
                        ELSE [driver EXCEPT
                                !.sent[f.sender] = Append(@, f.id),
                                !.pc = "receive"]
    /\ UNCHANGED <<next_seq, pending_acks, received_seqs, now, medium, call,
                   ret, app_log, acks_processed, send_log, nsends,
                   sent_reliably, delivered, codec, modem>>

\* rx_signal = channel.transmit(signal) as the receiver's demodulator
\* renders it, receiver.receive(rx_signal, arrival_time), and the call of
\* propagate for the response if there is one
propagate_receive ==
    /\ driver.pc = "receive"
    /\ LET f == driver.stack[Len(driver.stack)]
           receiver == receiver_of(f.sender)
           arrival_time == f.t + 1
       IN  \E bits \in rendered(f.signal, Len(driver.stack)) :
               /\ receive(receiver, bits, seconds(arrival_time))
               /\ driver' =
                     LET took == [driver EXCEPT
                                    !.received[receiver] = Append(@, f.id),
                                    !.intact = @ /\ bits = f.signal]
                     IN  IF ret'.response_signal # None
                            /\ ret'.response_packet # None
                         THEN [took EXCEPT
                                 !.pc = "propagate",
                                 !.nproduced = @ + 1,
                                 !.stack =
                                     Append(@,
                                         frame_of(receiver,
                                             ret'.response_signal[1],
                                             ret'.response_packet[1],
                                             arrival_time,
                                             driver.nproduced + 1))]
                         ELSE returned(took)

\* sim_state['time'] += ... after the propagate of a scenario
script_wait ==
    /\ driver.pc = "returned"
    /\ driver.phase = "script"
    /\ driver' = [driver EXCEPT
                    !.time = @ + Tick * Script[driver.step].wait,
                    !.step = @ + 1,
                    !.pc = IF driver.step < Len(Script)
                           THEN "send" ELSE "check"]
    /\ UNCHANGED <<network, codec, modem>>

\* retries = client.check_timeouts(sim_state['time'])
script_check_timeouts ==
    /\ driver.pc = "check"
    /\ check_timeouts(client, seconds(driver.time))
    /\ LET out == ret'.retransmit_data
           n == Len(out)
       IN  driver' = [driver EXCEPT
                        !.pc = "retries",
                        !.phase = "retries",
                        !.nproduced = @ + n,
                        !.retries =
                            retry_order(
                                [i \in 1..n |->
                                    [signal |-> out[i].signal,
                                     packet |-> out[i].packet,
                                     id |-> driver.nproduced + i]])]

\* for sig, pkt in retries: propagate(client, sig, pkt, sim_state['time'])
retry_next ==
    /\ driver.pc \in {"retries", "returned"}
    /\ driver.phase = "retries"
    /\ driver.retries # <<>>
    /\ LET r == Head(driver.retries)
       IN  driver' = [driver EXCEPT
                        !.pc = "propagate",
                        !.retries = Tail(@),
                        !.stack = <<frame_of(client, r.signal, r.packet,
                                             driver.time, r.id)>>]
    /\ UNCHANGED <<network, codec, modem>>

\* the loop is through and run_simulation returns
finish ==
    /\ driver.pc \in {"retries", "returned"}
    /\ driver.phase = "retries"
    /\ driver.retries = <<>>
    /\ driver' = [driver EXCEPT !.pc = "done"]
    /\ UNCHANGED <<network, codec, modem>>

NextDriver ==
    run_simulation \/ script_send \/ propagate_transmit \/ propagate_receive
    \/ script_wait \/ script_check_timeouts \/ retry_next \/ finish

SpecDriver == InitDriver /\ [][NextDriver]_vars

(***************************************************************************)
(* The claims.                                                             *)
(***************************************************************************)
\* the latest step was a receive that parsed a frame of this kind,
\* addressed to the receiving endpoint
Received(kind) ==
    /\ call.op = "receive"
    /\ call.frame # None
    /\ call.frame[1].type = kind
    /\ call.frame[1].dst = call.host

\* C1: duplicate suppression.  A receive of a DATA frame addressed to the
\* endpoint surfaces the frame's payload if the endpoint has not yet
\* surfaced that (src, seq) and surfaces nothing if it has; either way it
\* emits an ACK, and no (src, seq) is ever surfaced more than once.
C1_DuplicateSuppression ==
    [][ /\ \A h \in Hosts : \A id \in DOMAIN app_log'[h] : app_log'[h][id] <= 1
        /\ Received("DATA")' =>
              LET h == call'.host
                  p == call'.frame[1]
                  id == <<p.src, p.seq>>
              IN  /\ id \notin DOMAIN app_log[h]
                        => ret'.app_data = Some(p.payload)
                  /\ id \in DOMAIN app_log[h] => ret'.app_data = None
                  /\ ret'.response_signal # None
                  /\ ret'.response_packet # None
      ]_vars

\* C1 witness: the same (src, seq) arrived again, nothing was surfaced and
\* an ACK was emitted
C1_Witness ==
    /\ Received("DATA")
    /\ ret.app_data = None
    /\ ret.response_signal # None
    /\ app_log[call.host][<<call.frame[1].src, call.frame[1].seq>>] = 1

\* C2: every DATA frame that parses and is addressed to the endpoint makes
\* receive return an ACK frame, as a packet and on the wire, with the
\* frame's seq, the endpoint as src and the frame's src as dst.
C2_AckForEveryData ==
    Received("DATA") =>
        LET p == call.frame[1]
            ack == [src |-> call.host, dst |-> p.src, type |-> "ACK",
                    seq |-> p.seq]
            IsAck(q) == [f \in DOMAIN ack |-> q[f]] = ack
        IN  /\ ret.response_packet # None
            /\ IsAck(ret.response_packet[1])
            /\ ret.response_signal # None
            /\ from_bits(ret.response_signal[1]) # None
            /\ IsAck(from_bits(ret.response_signal[1])[1])

\* C2 witness: a DATA frame with seq 1 was received for the first time and
\* acknowledged
C2_Witness ==
    /\ Received("DATA")
    /\ call.frame[1].seq = 1
    /\ ret.app_data # None
    /\ ret.response_packet # None

\* the seqs of the entries the latest check_timeouts returned
Retransmitted(out) == {out[i].packet.seq : i \in 1..Len(out)}

C4_RetransmitSameFrame ==
    [][ call'.op = "check_timeouts" =>
          LET h == call'.host
              out == ret'.retransmit_data
          IN  \A k \in DOMAIN pending_acks[h] :
                  /\ send_log[h][k].retransmissions = 0
                  /\ now - send_log[h][k].time > timeout_interval
                  => LET hits == {i \in 1..Len(out) : out[i].packet.seq = k}
                         sent == from_bits(send_log[h][k].signal)
                     IN  /\ Cardinality(hits) = 1
                         /\ sent # None
                         /\ \A i \in hits :
                               LET again == from_bits(out[i].signal)
                               IN  /\ again # None
                                   /\ again[1].seq = sent[1].seq
                                   /\ again[1].payload = sent[1].payload
                                   /\ again[1].src = sent[1].src
      ]_vars

\* C4 witness: check_timeouts has just retransmitted, for the first time,
\* a frame carrying "Hi" that was sent more than timeout_interval ago
C4_Witness ==
    /\ call.op = "check_timeouts"
    /\ \E k \in DOMAIN send_log[call.host] :
          /\ send_log[call.host][k].retransmissions = 1
          /\ now - send_log[call.host][k].time > timeout_interval
          /\ k \in Retransmitted(ret.retransmit_data)
          /\ pending_acks[call.host][k].packet.payload = <<72, 105>>

\* C5: check_timeouts(now) returns a pending entry, once, if and only if
\* now - sent_time > timeout_interval; an entry whose elapsed time is
\* at most timeout_interval is not returned, and every entry whose
\* elapsed time exceeds it is returned by the same call.
C5_TimeoutIsStrict ==
    [][ call'.op = "check_timeouts" =>
          LET h == call'.host
              out == ret'.retransmit_data
          IN  /\ Retransmitted(out) =
                    {k \in DOMAIN pending_acks[h] :
                        now - pending_acks[h][k].sent_time > timeout_interval}
              /\ Len(out) = Cardinality(Retransmitted(out))
      ]_vars

\* C5 witness: one call retransmitted an entry and left alone another
\* whose elapsed time was exactly timeout_interval
C5_Witness ==
    /\ call.op = "check_timeouts"
    /\ Len(ret.retransmit_data) = 1
    /\ \E k \in DOMAIN pending_acks[call.host] :
          now - pending_acks[call.host][k].sent_time = timeout_interval

\* C6: check_timeouts changes nothing of the endpoints but sent_time: the
\* pending seqs, each stored packet, next_seq and the seen sets stay as
\* they were; sent_time becomes now for exactly the entries returned and
\* stays for the others; and an entry whose sent_time lies at most
\* timeout_interval back (as after a retransmission) is not returned.
C6_CheckTimeoutsKeepsEntries ==
    [][ call'.op = "check_timeouts" =>
          LET h == call'.host
              resent == Retransmitted(ret'.retransmit_data)
          IN  /\ next_seq' = next_seq
              /\ received_seqs' = received_seqs
              /\ \A g \in Hosts \ {h} : pending_acks'[g] = pending_acks[g]
              /\ DOMAIN pending_acks'[h] = DOMAIN pending_acks[h]
              /\ \A k \in DOMAIN pending_acks[h] :
                    /\ pending_acks'[h][k].packet = pending_acks[h][k].packet
                    /\ pending_acks'[h][k].sent_time =
                          IF k \in resent THEN now
                          ELSE pending_acks[h][k].sent_time
                    /\ now - pending_acks[h][k].sent_time <= timeout_interval
                          => k \notin resent
      ]_vars

\* C6 witness: a later check_timeouts, made within timeout_interval of an
\* entry's retransmission, returned nothing
C6_Witness ==
    /\ call.op = "check_timeouts"
    /\ ret.retransmit_data = <<>>
    /\ \E k \in DOMAIN pending_acks[call.host] :
          /\ send_log[call.host][k].retransmissions >= 1
          /\ now > pending_acks[call.host][k].sent_time

\* C7: a pending entry leaves the table only by a receive, at its
\* endpoint, of an ACK addressed to the endpoint with the entry's seq;
\* until then every check_timeouts made more than timeout_interval after
\* its previous (re)transmission returns it and keeps it, however often
\* it was retransmitted before.
C7_RetransmitUntilAck ==
    [][ \A h \in Hosts : \A k \in DOMAIN pending_acks[h] :
          /\ k \notin DOMAIN pending_acks'[h]
                => /\ Received("ACK")'
                   /\ call'.host = h
                   /\ call'.frame[1].seq = k
          /\ ( /\ call'.op = "check_timeouts"
               /\ call'.host = h
               /\ now - pending_acks[h][k].sent_time > timeout_interval )
                => /\ k \in Retransmitted(ret'.retransmit_data)
                   /\ k \in DOMAIN pending_acks'[h]
      ]_vars

\* C7 witness: an entry was just retransmitted for the second time
C7_Witness ==
    /\ call.op = "check_timeouts"
    /\ \E k \in DOMAIN pending_acks[call.host] :
          /\ send_log[call.host][k].retransmissions = 2
          /\ k \in Retransmitted(ret.retransmit_data)

\* C8: a receive of a correctly parsed frame, DATA or ACK, whose dst is
\* not the endpoint's address returns no response and no payload, leaves
\* pending, seen and next_seq as they were and records no event.
C8_AddressFilter ==
    [][ ( /\ call'.op = "receive"
          /\ call'.frame # None
          /\ call'.frame[1].dst # call'.host )
        => /\ ret' = NoReturn
           /\ UNCHANGED <<pending_acks, received_seqs, next_seq>>
           /\ SIM_EVENTS'.count = SIM_EVENTS.count
           /\ SIM_EVENTS'.appended = <<>>
      ]_vars

\* C8 witness: an endpoint received an intact ACK addressed to another
C8_Witness ==
    /\ call.op = "receive"
    /\ call.frame # None
    /\ call.frame[1].dst # call.host
    /\ call.frame[1].type = "ACK"

\* C9: a receive for which demodulation yields no bits, or for which
\* Packet.from_bits yields no frame, returns no response and no payload
\* and leaves pending, seen and next_seq as they were, so the sender's
\* pending entry survives it.
C9_ParseFailureChangesNothing ==
    [][ (call'.op = "receive" /\ call'.frame = None)
        => /\ ret' = NoReturn
           /\ UNCHANGED <<pending_acks, received_seqs, next_seq>>
      ]_vars

\* C9 witness: bits were demodulated, from_bits made no frame of them, and
\* the sender still holds its pending entry
C9_Witness ==
    /\ call.op = "receive"
    /\ call.got_bits
    /\ call.frame = None
    /\ pending_acks[1] # <<>>

\* C10: a receive of an ACK addressed to the endpoint removes the pending
\* entry keyed by the ACK's seq, if there is one, and changes nothing else
\* of pending, seen and next_seq (nothing at all if there is none); it
\* returns no response and no payload.
C10_AckIdempotent ==
    [][ Received("ACK")' =>
          LET h == call'.host
              seq == call'.frame[1].seq
          IN  /\ ret' = NoReturn
              /\ UNCHANGED <<received_seqs, next_seq>>
              /\ \A g \in Hosts \ {h} : pending_acks'[g] = pending_acks[g]
              /\ DOMAIN pending_acks'[h] = DOMAIN pending_acks[h] \ {seq}
              /\ \A k \in DOMAIN pending_acks'[h] :
                    pending_acks'[h][k] = pending_acks[h][k]
              /\ seq \notin DOMAIN pending_acks[h]
                    => pending_acks' = pending_acks
      ]_vars

\* C10 witness: an ACK arrived for a seq that was acknowledged before,
\* while another entry was pending
C10_Witness ==
    /\ Received("ACK")
    /\ call.frame[1].seq < next_seq[call.host]
    /\ call.frame[1].seq \notin DOMAIN pending_acks[call.host]
    /\ pending_acks[call.host] # <<>>
    /\ SIM_EVENTS.count = 3

\* C11: a reliable send at time now builds a DATA packet with the
\* endpoint as src and the old next_seq as seq, stores it in pending_acks
\* under that seq with sent_time = now, leaves the other entries alone and
\* adds exactly one to next_seq; and after k reliable sends of an endpoint
\* next_seq is k and the keys inserted were 0..k-1, in that order.
C11_ReliableSend ==
    [][ /\ \A h \in Hosts :
              /\ next_seq'[h] = Len(sent_reliably'[h])
              /\ \A i \in 1..Len(sent_reliably'[h]) :
                    sent_reliably'[h][i] = i - 1
        /\ (call'.op = "send" /\ call'.reliable) =>
              LET h == call'.host
                  p == ret'.packet[1]
              IN  /\ p.type = "DATA"
                  /\ p.src = h
                  /\ p.seq = next_seq[h]
                  /\ ret'.signal = Some(to_bits(p))
                  /\ DOMAIN pending_acks'[h] =
                        DOMAIN pending_acks[h] \cup {next_seq[h]}
                  /\ pending_acks'[h][next_seq[h]] =
                        [packet |-> p, sent_time |-> now]
                  /\ \A k \in DOMAIN pending_acks[h] \ {next_seq[h]} :
                        pending_acks'[h][k] = pending_acks[h][k]
                  /\ next_seq'[h] = next_seq[h] + 1
      ]_vars

\* C11 witness: the second reliable send of endpoint 1, made after time 0
\* and after the first was acknowledged
C11_Witness ==
    /\ call.op = "send"
    /\ call.reliable
    /\ now > 0
    /\ sent_reliably[1] = <<0, 1>>
    /\ DOMAIN pending_acks[1] = {1}

\* C12 as stated: next_seq is an 8-bit counter, 0 <= next_seq <= 255 in
\* every state, the reliable send that uses seq 255 leaves next_seq = 0,
\* and the key of every pending entry equals the seq its serialized
\* frame carries.
C12_AsStated ==
    \A h \in Hosts :
        /\ next_seq[h] \in 0..(SeqModulus - 1)
        /\ ( /\ call.op = "send"
             /\ call.reliable
             /\ call.host = h
             /\ ret.packet[1].seq = SeqModulus - 1 ) => next_seq[h] = 0
        /\ \A k \in DOMAIN pending_acks[h] :
              from_bits(to_bits(pending_acks[h][k].packet))[1].seq = k

\* C13: a send with reliable = false returns the waveform of a DATA
\* packet whose seq is next_seq and leaves next_seq, pending_acks and
\* received_seqs as they were; and check_timeouts returns nothing but
\* entries that reliable sends put into pending_acks, each with the packet
\* and the signal of its reliable send, so the packet of an unreliable
\* send is never retransmitted.
C13_UnreliableSend ==
    [][ /\ (call'.op = "send" /\ ~call'.reliable) =>
              LET h == call'.host
                  p == ret'.packet[1]
              IN  /\ p.type = "DATA"
                  /\ p.seq = next_seq[h]
                  /\ ret'.signal = Some(to_bits(p))
                  /\ UNCHANGED <<next_seq, pending_acks, received_seqs>>
        /\ call'.op = "check_timeouts" =>
              LET h == call'.host
                  out == ret'.retransmit_data
              IN  \A i \in 1..Len(out) :
                    LET k == out[i].packet.seq
                    IN  /\ k \in DOMAIN pending_acks[h]
                        /\ \E j \in 1..Len(sent_reliably[h]) :
                              sent_reliably[h][j] = k
                        /\ out[i].packet = pending_acks[h][k].packet
                        /\ out[i].signal = send_log[h][k].signal
      ]_vars

\* C13 witness: the only send so far was unreliable, more than
\* timeout_interval has passed, and check_timeouts returned nothing
C13_Witness ==
    /\ call.op = "check_timeouts"
    /\ call.host = 1
    /\ nsends = 1
    /\ sent_reliably[1] = <<>>
    /\ now > timeout_interval
    /\ ret.retransmit_data = <<>>

\* the bits handed to from_bits are the bits to_bits returned
Intact == codec.stage = "parsed" /\ codec.bits = codec.sent

\* C14: frame round trip.  For a packet with src, dst and seq in 0..255,
\* type DATA or ACK and a payload of 0..255 bytes,
\* Packet.from_bits(packet.to_bits()) is a packet with the same src, dst,
\* type, seq and payload.
C14_RoundTrip ==
    Intact =>
        /\ codec.result # None
        /\ codec.result[1] = codec.packet[1]

\* C14 witness: the ACK with seq 255 and a payload of 255 bytes came back
C14_Witness ==
    /\ Intact
    /\ codec.packet[1].type = "ACK"
    /\ codec.packet[1].seq = WrapStart
    /\ Len(codec.packet[1].payload) = MaxLEN
    /\ codec.result # None

\* the positions at which the bits handed to from_bits differ from the
\* bits to_bits returned
Damaged ==
    {i \in 1..Len(codec.sent) :
        i > Len(codec.bits) \/ codec.bits[i] # codec.sent[i]}

\* C15 as stated: flipping any one bit of the header (SRC, DST, TYPE,
\* SEQ, LEN) or of the payload of a serialized frame makes
\* Packet.from_bits return no frame.
C15_AsStated ==
    ( /\ codec.stage = "parsed"
      /\ Len(codec.bits) = Len(codec.sent)
      /\ \E i \in 1..(Len(codec.sent) - 8) : Damaged = {i} )
    => codec.result = None

\* the value of the 8 bits after position at, most significant bit first
Field(bits, at) ==
    128 * bits[at + 1] + 64 * bits[at + 2] + 32 * bits[at + 3]
    + 16 * bits[at + 4] + 8 * bits[at + 5] + 4 * bits[at + 6]
    + 2 * bits[at + 7] + bits[at + 8]

\* the number of 1 bits among the first n
Ones(bits, n) == Cardinality({i \in 1..n : bits[i] = 1})

\* C16: Packet.from_bits returns no frame exactly when the sequence has
\* fewer than 48 bits, or 40 + 8*LEN + 8 exceeds the number of bits, or
\* the 8 bits after the payload differ from the checksum recomputed over
\* header and payload; so every frame it returns carries the additive
\* checksum of its header and payload.
C16_FromBitsFailsExactlyWhen ==
    codec.stage = "parsed" =>
        LET bits == codec.bits
            n == Len(bits)
            short == n < 48
            len == Field(bits, 32)
            overrun == ~short /\ 40 + 8 * len + 8 > n
            mismatch ==
                /\ ~short
                /\ ~overrun
                /\ Field(bits, 40 + 8 * len)
                      # Ones(bits, 40 + 8 * len) % 256
        IN  (codec.result = None) <=> (short \/ overrun \/ mismatch)

\* C16 witness: at least 48 bits arrived, the length field runs past
\* their end, and from_bits returned no frame
C16_Witness ==
    /\ codec.stage = "parsed"
    /\ Len(codec.bits) >= 48
    /\ 40 + 8 * Field(codec.bits, 32) + 8 > Len(codec.bits)
    /\ codec.result = None

\* C17: for a payload of n bytes, 0 <= n <= 255, to_bits returns exactly
\* 48 + 8*n bits: SRC, DST, TYPE, SEQ, LEN, the payload bytes and the
\* checksum, 8 bits each and most significant bit first, with TYPE 1 for
\* DATA and 2 for ACK, LEN = n and the checksum the number of 1 bits
\* before it modulo 256.
C17_BitLayout ==
    codec.stage = "bits" =>
        LET p == codec.packet[1]
            bits == codec.bits
            n == Len(p.payload)
        IN  /\ Len(bits) = 48 + 8 * n
            /\ \A i \in 1..Len(bits) : bits[i] \in {0, 1}
            /\ Field(bits, 0) = p.src
            /\ Field(bits, 8) = p.dst
            /\ Field(bits, 16) = (IF p.type = "DATA" THEN 1 ELSE 2)
            /\ Field(bits, 24) = p.seq
            /\ Field(bits, 32) = n
            /\ \A k \in 1..n : Field(bits, 40 + 8 * (k - 1)) = p.payload[k]
            /\ Field(bits, 40 + 8 * n) = Ones(bits, 40 + 8 * n) % 256

\* C17 witness: a frame with 255 payload bytes, whose bits before the
\* checksum hold more than 255 ones
C17_Witness ==
    /\ codec.stage = "bits"
    /\ Len(codec.packet[1].payload) = MaxLEN
    /\ Len(codec.bits) = 48 + 8 * MaxLEN
    /\ Ones(codec.bits, 40 + 8 * MaxLEN) > MaxLEN

\* endpoint 1 has made one send so far, a reliable one, from a fresh start
ScenarioA == nsends = 1 /\ sent_reliably[1] = <<0>>

\* C18: scenario A.  After the first, reliable send of a payload by
\* endpoint 1 to endpoint 2, endpoint 2's receive of the frame reports
\* exactly that payload with seq 0 and emits an ACK with seq 0 for endpoint
\* 1; and endpoint 1's receive of that ACK leaves its pending table empty.
C18_ScenarioA ==
    [][ ScenarioA =>
          /\ ( /\ Received("DATA")'
               /\ call'.host = 2
               /\ received_seqs[2] = {} )
              => /\ call'.frame[1] = pending_acks[1][0].packet
                 /\ from_bits(send_log[1][0].signal) = call'.frame
                 /\ ret'.app_data = Some(pending_acks[1][0].packet.payload)
                 /\ call'.frame[1].seq = 0
                 /\ ret'.response_packet # None
                 /\ ret'.response_packet[1].type = "ACK"
                 /\ ret'.response_packet[1].seq = 0
                 /\ ret'.response_packet[1].dst = 1
                 /\ from_bits(ret'.response_signal[1])[1].seq = 0
          /\ (Received("ACK")' /\ call'.host = 1 /\ call'.frame[1].seq = 0)
              => pending_acks'[1] = <<>>
      ]_vars

\* C18 witness: "Hi" was delivered once to endpoint 2, and endpoint 1 has
\* just received the ACK and holds nothing pending
C18_Witness ==
    /\ ScenarioA
    /\ Received("ACK")
    /\ call.host = 1
    /\ call.frame[1].seq = 0
    /\ pending_acks[1] = <<>>
    /\ app_log[2] = (<<1, 0>> :> 1)
    /\ \E signal \in medium :
          /\ from_bits(signal) # None
          /\ from_bits(signal)[1].payload = <<72, 105>>

\* the payload of endpoint 1's reliable send with key k has been surfaced
\* by endpoint 2: its (src, seq) has been surfaced once more than the
\* earlier sends with the same seq on the wire account for
Surfaced(k) ==
    LET id == <<1, k % SeqModulus>>
    IN  /\ id \in DOMAIN app_log[2]
        /\ app_log[2][id] > k \div SeqModulus

\* C19 as stated: under a fair-loss channel and a driver that keeps
\* calling check_timeouts and transmitting what it returns, every reliable
\* send, also after seq has passed 255, is eventually surfaced by the
\* destination, and its pending entry is eventually removed.
C19_AsStated ==
    \A k \in WrapStart..(WrapStart + MaxSends) :
        /\ (k \in DOMAIN pending_acks[1]) ~> Surfaced(k)
        /\ (k \in DOMAIN pending_acks[1]) ~> (k \notin DOMAIN pending_acks[1])

\* the same for the sends up to seq 255 only
C19_UpToWrap ==
    \A k \in {WrapStart} :
        /\ (k \in DOMAIN pending_acks[1]) ~> Surfaced(k)
        /\ (k \in DOMAIN pending_acks[1]) ~> (k \notin DOMAIN pending_acks[1])

\* the waveform in the modem is the modulated one, up to inversion and
\* delay
Whole ==
    /\ ~modem.silent
    /\ Len(modem.signal) =
           modem.delay
           + samples_per_bit * (Len(preamble) + Len(modem.bits))

\* C20: demodulating the noiseless BPSK waveform of a bit sequence, or its
\* sample-wise negated copy, returns the bit sequence.
C20_BpskPolarity ==
    (modem.stage = "demodulated" /\ modem.scheme = "BPSK" /\ Whole)
        => modem.result = modem.bits

\* the inverted copy of the waveform of a sequence with both a 0 and a 1 in
\* it has been demodulated to that sequence
C20_Witness ==
    /\ modem.stage = "demodulated"
    /\ modem.scheme = "BPSK"
    /\ modem.inverted
    /\ modem.bits = <<1, 0, 0>>
    /\ modem.result = modem.bits

\* C21: demodulating the ASK waveform of a bit sequence, preceded by any
\* number of zero-valued samples, returns the bit sequence: the preamble is
\* found at the start of the frame and is not part of the result.
C21_AskRoundTrip ==
    (modem.stage = "demodulated" /\ modem.scheme = "ASK" /\ ~modem.inverted
     /\ Whole)
        => modem.result = modem.bits

\* a delayed ASK waveform whose data goes on in the pattern of the
\* preamble has been demodulated to its data
C21_Witness ==
    /\ modem.stage = "demodulated"
    /\ modem.scheme = "ASK"
    /\ ~modem.inverted
    /\ modem.delay > samples_per_bit
    /\ modem.bits = <<1, 0, 1>>
    /\ modem.result = modem.bits

\* C22: demodulate returns whole bits only: none for a waveform that is
\* empty, shorter than the reference preamble or all zeros, and otherwise
\* as many as whole bit periods follow the preamble of the frame, an
\* undersized trailing segment being dropped.
C22_WholeBitsOnly ==
    modem.stage = "demodulated" =>
        LET L == Len(modem.signal)
            N == samples_per_bit
            start == modem.delay
        IN  /\ \A i \in DOMAIN modem.result : modem.result[i] \in {0, 1}
            /\ (L < Len(preamble) * N \/ modem.silent)
                   => modem.result = <<>>
            /\ (L >= start + Len(preamble) * N /\ ~modem.silent)
                   => Len(modem.result) = (L - start - Len(preamble) * N) \div N

\* a waveform that lost its last sample has been demodulated to all of its
\* bits but the last
C22_Witness ==
    /\ modem.stage = "demodulated"
    /\ Len(modem.bits) = 2
    /\ Len(modem.signal) =
           modem.delay + samples_per_bit * (Len(preamble) + 2) - 1
    /\ modem.result = SubSeq(modem.bits, 1, 1)

\* C24 as stated: no call of send, receive or check_timeouts changes
\* module-global state; here, the length of the module-level list
\* SIM_EVENTS.
C24_AsStated ==
    [][call'.op \in {"send", "receive", "check_timeouts"}
          => SIM_EVENTS'.count = SIM_EVENTS.count]_vars

\* C26: the seen set (received_seqs) of an endpoint only grows; a pair
\* enters it only in a receive that surfaces the payload of a DATA frame
\* addressed to the endpoint, and the pairs in it are those for which a
\* payload has been surfaced.
C26_SeenGrows ==
    [][\A h \in Hosts :
          /\ received_seqs[h] \subseteq received_seqs'[h]
          /\ \A id \in received_seqs'[h] \ received_seqs[h] :
                /\ call'.op = "receive"
                /\ call'.host = h
                /\ call'.frame # None
                /\ call'.frame[1].type = "DATA"
                /\ call'.frame[1].dst = h
                /\ id = <<call'.frame[1].src, call'.frame[1].seq>>
                /\ ret'.app_data = Some(call'.frame[1].payload)
          /\ DOMAIN app_log'[h] = received_seqs'[h]]_vars

\* endpoint 2 has just surfaced a payload and holds its pair
C26_Witness ==
    /\ call.op = "receive"
    /\ call.host = 2
    /\ ret.app_data # None
    /\ <<call.frame[1].src, call.frame[1].seq>> \in received_seqs[2]
    /\ Cardinality(received_seqs[2]) = 2

\* C27: when receive returns an ACK with seq s and dst a, the pair (a, s)
\* is in the seen set of the endpoint that returns it.
C27_AckCausality ==
    [][(call'.op = "receive" /\ ret'.response_packet # None)
          => LET ack == ret'.response_packet[1]
             IN  /\ ack.type = "ACK"
                 /\ <<ack.dst, ack.seq>> \in received_seqs'[call'.host]]_vars

\* endpoint 2 has just acknowledged a frame it had seen before
C27_Witness ==
    /\ call.op = "receive"
    /\ call.host = 2
    /\ ret.response_packet # None
    /\ ret.app_data = None
    /\ <<ret.response_packet[1].dst, ret.response_packet[1].seq>>
           \in received_seqs[2]

\* C28 as stated: whenever a pending entry of an endpoint is removed, the
\* destination of its frame has already surfaced the payload of its frame.
C28_AsStated ==
    [][\A h \in Hosts : \A k \in DOMAIN pending_acks[h] :
          k \notin DOMAIN pending_acks'[h]
              => LET frame == pending_acks[h][k].packet
                 IN  <<h, frame.payload>> \in delivered[frame.dst]]_vars

\* C29 as stated: the DATA frames of two send calls of an endpoint, here
\* of two calls in a row, carry different seq values.
C29_AsStated ==
    [][(call.op = "send" /\ call'.op = "send" /\ call'.host = call.host)
          => ret'.packet[1].seq % SeqModulus
                 # ret.packet[1].seq % SeqModulus]_vars

\* C30 as stated: a pending entry of an endpoint is removed only by the
\* receive of an ACK whose src is the destination of the entry's frame.
C30_AsStated ==
    [][\A h \in Hosts : \A k \in DOMAIN pending_acks[h] :
          k \notin DOMAIN pending_acks'[h]
              => /\ call'.op = "receive"
                 /\ call'.host = h
                 /\ call'.frame # None
                 /\ call'.frame[1].type = "ACK"
                 /\ call'.frame[1].src = pending_acks[h][k].packet.dst]_vars

\* C25 as stated: the construction of a Modem with samples_per_bit = 0
\* fails, and a call on a Modem that was constructed never raises.
C25_AsStated ==
    /\ (modem.samples_per_bit = 0 /\ modem.stage # "new")
          => modem.stage = "rejected"
    /\ modem.stage # "raised"

\* the frames of q that the loss window did not take, in the order of q
not_lost(q) == SelectSeq(q, LAMBDA id : id \notin driver.lost)

\* C23: per-link FIFO in the simulation driver.  On the link from the
\* client to the server and on the link back, the receiving endpoint's
\* receive is handed the frames that were transmitted and not lost in the
\* order of their transmission, each before the next frame is transmitted:
\* what it has been handed is what was transmitted and not lost, less at
\* most the frame transmitted last.
C23_PerLinkFifo ==
    \A link \in {<<client, server>>, <<server, client>>} :
        LET put == not_lost(driver.sent[link[1]])
            got == driver.received[link[2]]
        IN  /\ Len(got) <= Len(put)
            /\ Len(put) <= Len(got) + 1
            /\ got = SubSeq(put, 1, Len(got))

\* C23 witness: run_simulation is through; check_timeouts returned at least
\* two retransmissions, the loss window took a frame, the server's receive
\* was handed every other frame of the client and the client's receive at
\* least two frames of the server
C23_Witness ==
    /\ driver.pc = "done"
    /\ Len(driver.sent[client]) >= Len(Script) + 2
    /\ driver.lost # {}
    /\ driver.received[server] = not_lost(driver.sent[client])
    /\ Len(driver.received[client]) >= 2

\* C31 as stated: propagate is never more than two calls deep, and a
\* response comes back only from the receive of the frame a send or
\* check_timeouts returned, never from the receive of a response.
C31_AsStated ==
    /\ Len(driver.stack) <= 2
    /\ \A i \in DOMAIN driver.stack :
          driver.stack[i].packet.type = "ACK" => i = Len(driver.stack)

\* C32: the scripted run with every frame handed to receive as it was sent.
\* The three sends are made at t = 0, 2 and 5 with seq 0, 1 and 2; the loss
\* window takes the frame of the third send and nothing else;
\* check_timeouts at t = 9 returns the retransmission of seq 2 and nothing
\* else; and when run_simulation is through the client's pending table is
\* empty, its next_seq is 3, the server has seen (1, 0), (1, 1), (1, 2) and
\* has surfaced each of the three payloads once.
C32_ScriptedOutcome ==
    driver.intact =>
        /\ (driver.pc = "propagate" /\ call.op = "send")
              => /\ seconds(driver.time) = <<0, 2, 5>>[driver.step]
                 /\ driver.time = Tick * seconds(driver.time)
                 /\ call.reliable
                 /\ ret.packet[1].seq = driver.step - 1
        /\ \A id \in driver.lost :
              /\ driver.sent[client] # <<>>
              /\ \E i \in DOMAIN driver.sent[client] :
                    driver.sent[client][i] = id /\ i = Len(Script)
        /\ (driver.pc = "retries" /\ call.op = "check_timeouts")
              => /\ seconds(driver.time) = 9
                 /\ Len(ret.retransmit_data) = 1
                 /\ ret.retransmit_data[1].packet.seq = 2
                 /\ Cardinality(driver.lost) = 1
        /\ driver.pc = "done"
              => /\ pending_acks[client] = <<>>
                 /\ next_seq[client] = 3
                 /\ sent_reliably[client] = <<0, 1, 2>>
                 /\ received_seqs[server] = {<<1, 0>>, <<1, 1>>, <<1, 2>>}
                 /\ \A q \in 0..2 : app_log[server][<<1, q>>] = 1
                 /\ delivered[server] =
                        {<<client, Script[i].message>> : i \in 1..Len(Script)}
                 /\ delivered[client] = {}

\* C32 witness: run_simulation is through, every frame was handed to
\* receive as it was sent, and the loss window took a frame
C32_Witness ==
    /\ driver.pc = "done"
    /\ driver.intact
    /\ driver.lost # {}
    /\ Len(driver.received[server]) = Len(Script)

\* C33: the pending table.  After every step, each key of an endpoint's
\* pending table is smaller than its next_seq and the frame stored under
\* key k has seq k, kind DATA and the endpoint as src; and the frame of an
\* entry that stays in the table is the frame it held before the step.
C33_PendingTable ==
    [][\A h \in Hosts :
          /\ \A k \in DOMAIN pending_acks'[h] :
                LET frame == pending_acks'[h][k].packet
                IN  /\ k < next_seq'[h]
                    /\ frame.seq = k
                    /\ frame.type = "DATA"
                    /\ frame.src = h
          /\ \A k \in DOMAIN pending_acks[h] \cap DOMAIN pending_acks'[h] :
                pending_acks'[h][k].packet = pending_acks[h][k].packet]_vars

\* C33 witness: check_timeouts has just retransmitted the entry of "Hi",
\* which is still in the table with its timer restarted
C33_Witness ==
    /\ call.op = "check_timeouts"
    /\ \E k \in DOMAIN pending_acks[1] :
          /\ pending_acks[1][k].packet.payload = <<72, 105>>
          /\ pending_acks[1][k].sent_time > 0
          /\ \E i \in DOMAIN ret.retransmit_data :
                ret.retransmit_data[i].packet = pending_acks[1][k].packet

\* C34: a reliable send never replaces a pending entry.  The key it uses is
\* not in the table, whatever the table holds; after it the table holds the
\* entries it held and the new one; and as long as an endpoint has
\* processed no ACK, its table holds one entry for each reliable send it
\* has made.
C34_NoReplacement ==
    [][ /\ (call'.op = "send" /\ call'.reliable) =>
              LET h == call'.host
                  k == next_seq[h]
              IN  /\ k \notin DOMAIN pending_acks[h]
                  /\ DOMAIN pending_acks'[h] = DOMAIN pending_acks[h] \cup {k}
                  /\ \A j \in DOMAIN pending_acks[h] :
                        pending_acks'[h][j] = pending_acks[h][j]
                  /\ pending_acks'[h][k].packet = ret'.packet[1]
        /\ \A h \in Hosts :
              acks_processed'[h] = {}
                  => Cardinality(DOMAIN pending_acks'[h])
                         = Len(sent_reliably'[h])
      ]_vars

\* C34 witness: endpoint 1 has just made its second reliable send with the
\* first still pending, and holds two entries
C34_Witness ==
    /\ call.op = "send" /\ call.reliable
    /\ acks_processed[1] = {}
    /\ Len(sent_reliably[1]) = 2
    /\ Cardinality(DOMAIN pending_acks[1]) = 2

\* C35 as stated: a frame from_bits returns is DATA exactly when the TYPE
\* field of the bits is 1 and ACK exactly when it is 2, so that for any
\* other TYPE from_bits returns no frame; and to_bits of the frame it
\* returns gives back the bits of the frame, up to the end of the checksum.
C35_AsStated ==
    (codec.stage = "parsed" /\ codec.result # None) =>
        LET bits == codec.bits
            frame == codec.result[1]
            type_int == Field(bits, 2 * LenBits)
            end == 40 + 8 * Field(bits, 4 * LenBits) + 8
        IN  /\ frame.type = "DATA" <=> type_int = 1
            /\ frame.type = "ACK" <=> type_int = 2
            /\ to_bits(frame) = SubSeq(bits, 1, end)

\* C36: from_bits looks at the first 40 + 8*LEN + 8 bits only.  For the
\* bits of a serialized frame followed by any bits, it returns what it
\* returns for the bits of the frame alone, which is the frame.
C36_TailIgnored ==
    (codec.stage = "parsed" /\ Len(codec.bits) > Len(codec.sent)
        /\ SubSeq(codec.bits, 1, Len(codec.sent)) = codec.sent)
    => /\ codec.result = from_bits(codec.sent)
       /\ codec.result = Some(codec.packet[1])

\* C36 witness: the bits of a whole second frame followed the frame, and
\* from_bits returned the first
C36_Witness ==
    /\ codec.stage = "parsed"
    /\ Len(codec.bits) = Len(codec.sent) + 48
    /\ codec.packet[1].payload = <<3, 65>>
    /\ codec.result = Some(codec.packet[1])

====
